---- MODULE Spec2Model ----
(***************************************************************************)
(* Model of src/data/generators/sensor_simulator.py: the SensorSimulator   *)
(* fleet, its update and publish steps and the run loop with its           *)
(* try/except/finally.                                                     *)
(*                                                                         *)
(* Sensor values are Python floats.  They are modelled as exact decimal    *)
(* fixed-point numbers with Digits digits after the point: the integer v   *)
(* stands for v / 10^Digits.  Digits is larger than every "precision" of   *)
(* SENSOR_TYPES, so values that are not yet rounded are representable.     *)
(***************************************************************************)
EXTENDS Integers, Sequences, FiniteSets, TLC

\* ---------------------------------------------------------------- bounds
\* largest fleet size (--sensors) explored
NumSensors == 2
\* iterations of the "while True" loop explored
MaxTicks == 2
\* decimal digits of the fixed-point representation of a float
Digits == 2

\* ------------------------------------------------------------ arithmetic
RECURSIVE Pow10(_)
Pow10(n) == IF n = 0 THEN 1 ELSE 10 * Pow10(n - 1)

\* the fixed-point image of 1.0
Scale == Pow10(Digits)

\* 10^-precision in fixed-point units
Quantum(precision) == Pow10(Digits - precision)

Min2(a, b) == IF a < b THEN a ELSE b

Max2(a, b) == IF a > b THEN a ELSE b

\* ------------------------------------------------------------ SENSOR_TYPES
\* (the unit label of temperature, a degree sign and C, is written "degC")
SENSOR_TYPES ==
    [ temperature |-> [ unit |-> "degC", min |-> 15 * Scale, max |-> 35 * Scale,
                        precision |-> 1, drift_max |-> (5 * Scale) \div 10 ],
      humidity    |-> [ unit |-> "%", min |-> 30 * Scale, max |-> 80 * Scale,
                        precision |-> 1, drift_max |-> 2 * Scale ],
      motion      |-> [ unit |-> "boolean", min |-> 0, max |-> 1 * Scale,
                        precision |-> 0, drift_max |-> 0 ] ]

SensorTypeNames == DOMAIN SENSOR_TYPES

\* ------------------------------------------------- the random source
\* random.uniform(min, max) at fleet initialisation: both ends of the range
\* and an interior point that is not a multiple of 10^-precision.
InitialSamples(config) ==
    { config.min, config.max,
      config.min + (config.max - config.min) \div 3 }

\* random.choice([0, 1])
MotionSamples == { 0, 1 * Scale }

\* DriftSamples with the drift drawn from twice the range
DriftSamplesDouble(config) ==
    { -2 * config.drift_max, Quantum(config.precision) \div 2 - 1, 2 * config.drift_max }

\* random.uniform(-drift_max, drift_max): both ends and an interior point
\* that is not a multiple of 10^-precision (just under half of it).
DriftSamples(config) ==
    { -config.drift_max, Quantum(config.precision) \div 2 - 1, config.drift_max }

\* random.random() < 0.1
FlipSamples == BOOLEAN

\* ---------------------------------------------------------------- state
VARIABLES
    sensors,        \* self.sensors: sequence of sensor records
    initial,        \* the fleet as _initialize_sensors returned it
    pc,             \* position of run()
    idx,            \* 1-based position of the for loop in update / publish
    tick,           \* number of the current loop iteration (0 before the loop)
    exc,            \* exception in flight: "none", "KeyboardInterrupt", "Exception"
    raised,         \* the exception the run has raised so far, handled or not
    connected,      \* what connect() returned: "pending", "true", "false", "raised"
    link,           \* the client's connection: "closed" or "open"
    now,            \* the wall clock read by datetime.now()
    timestamp,      \* local variable of publish_sensor_data
    sent,           \* messages handed to client.publish in the current tick
    updates,        \* per sensor: number of update steps applied to it
    calls           \* number of calls made: connect, disconnect, update, publish

vars == << sensors, initial, pc, idx, tick, exc, raised, connected, link, now, timestamp,
           sent, updates, calls >>

N == Len(sensors)

\* ------------------------------------------------- _initialize_sensors
Sensor(i, sensor_type, initial_value) ==
    [ id            |-> << sensor_type, i >>,
      type          |-> sensor_type,
      location      |-> << "room", ((i - 1) % 5) + 1 >>,
      current_value |-> initial_value,
      config        |-> SENSOR_TYPES[sensor_type] ]

InitialValues(sensor_type) ==
    IF sensor_type = "motion" THEN MotionSamples
    ELSE InitialSamples(SENSOR_TYPES[sensor_type])

SensorChoices(i) ==
    { Sensor(i, t, v) : << t, v >> \in
        UNION { { << t2, v2 >> : v2 \in InitialValues(t2) } : t2 \in SensorTypeNames } }

Fleets(n) ==
    { f \in [ 1..n -> UNION { SensorChoices(i) : i \in 1..n } ] :
        \A i \in 1..n : f[i] \in SensorChoices(i) }

Init ==
    /\ \E n \in 0..NumSensors : \E f \in Fleets(n) : sensors = [ i \in 1..n |-> f[i] ]
    /\ initial = sensors
    /\ pc = "connect"
    /\ idx = 0
    /\ tick = 0
    /\ exc = "none"
    /\ raised = "none"
    /\ connected = "pending"
    /\ link = "closed"
    /\ now = 0
    /\ timestamp = 0
    /\ sent = << >>
    /\ updates = [ i \in 1..Len(sensors) |-> 0 ]
    /\ calls = [ connect |-> 0, disconnect |-> 0, update |-> 0, publish |-> 0 ]

\* ------------------------------------------------- update_sensor_values
\* Clamp with the upper bound forgotten
ClampNoMax(config, new_value) == Max2(config.min, new_value)

\* max(config["min"], min(config["max"], new_value))
Clamp(config, new_value) == Max2(config.min, Min2(config.max, new_value))

\* Round with the rounding forgotten
RoundNone(new_value, precision) == new_value

\* round(new_value, precision): to the nearest multiple of 10^-precision,
\* an exact tie going to the even multiple.
Round(new_value, precision) ==
    LET q  == Quantum(precision)
        r  == new_value % q
        lo == new_value - r
    IN  IF 2 * r < q THEN lo
        ELSE IF 2 * r > q THEN lo + q
        ELSE IF (lo \div q) % 2 = 0 THEN lo ELSE lo + q

\* the value one pass of the loop body writes to sensor["current_value"];
\* flip is the outcome of random.random() < 0.1, drift the uniform sample
NewValue(sensor, flip, drift) ==
    IF sensor.type = "motion"
    THEN IF flip
         THEN (IF sensor.current_value = 0 THEN 1 * Scale ELSE 0)
         ELSE sensor.current_value
    ELSE Round(Clamp(sensor.config, sensor.current_value + drift),
               sensor.config.precision)

\* one pass of "for sensor in self.sensors" in update_sensor_values
UpdateSensor ==
    /\ pc = "update"
    /\ idx \in 1..N
    /\ IF sensors[idx].type = "motion"
       THEN \E flip \in FlipSamples :
              sensors' = [ sensors EXCEPT ![idx].current_value =
                                             NewValue(sensors[idx], flip, 0) ]
       ELSE \E drift \in DriftSamples(sensors[idx].config) :
              sensors' = [ sensors EXCEPT ![idx].current_value =
                                             NewValue(sensors[idx], FALSE, drift) ]
    /\ updates' = [ updates EXCEPT ![idx] = @ + 1 ]
    /\ idx' = idx + 1
    /\ now' = now + 1
    /\ UNCHANGED << initial, pc, tick, exc, connected, link, timestamp, sent, calls, raised >>

\* update_sensor_values returns; publish_sensor_data is called and reads
\* the clock once (line 110)
UpdateReturn ==
    /\ pc = "update"
    /\ idx = N + 1
    /\ pc' = "publish"
    /\ idx' = 1
    /\ timestamp' = now
    /\ now' = now + 1
    /\ UNCHANGED << sensors, initial, tick, exc, connected, link, sent, updates, calls, raised >>

\* ----------------------------------------------- run: except / finally
\* "except KeyboardInterrupt:" of run: the exception still in flight after
\* the clause; it handles a KeyboardInterrupt and lets every other pass
Except(e) == IF e = "KeyboardInterrupt" THEN "none" ELSE e

\* ------------------------------------------------- publish_sensor_data
\* Topic with type and id in the wrong order
TopicSwapped(sensor) == << "sensors", sensor.id, sensor.type >>

\* f"sensors/{sensor['type']}/{sensor['id']}"
Topic(sensor) == << "sensors", sensor.type, sensor.id >>

Payload(sensor, ts) ==
    [ sensor_id |-> sensor.id,
      type      |-> sensor.type,
      location  |-> sensor.location,
      value     |-> sensor.current_value,
      unit      |-> sensor.config.unit,
      timestamp |-> ts ]

\* json.dumps(payload): the members of the object in insertion order
JsonDumps(payload) ==
    << << "sensor_id", payload.sensor_id >>, << "type", payload.type >>,
       << "location", payload.location >>, << "value", payload.value >>,
       << "unit", payload.unit >>, << "timestamp", payload.timestamp >> >>

Message(sensor, ts) == [ topic |-> Topic(sensor), body |-> JsonDumps(Payload(sensor, ts)) ]

\* PublishSensor that also resets a motion sensor it has reported
PublishSensorResetsMotion ==
    /\ pc = "publish"
    /\ idx \in 1..N
    /\ sent' = Append(sent, Message(sensors[idx], timestamp))
    /\ sensors' = [ sensors EXCEPT ![idx].current_value =
                                     IF sensors[idx].type = "motion" THEN 0 ELSE @ ]
    /\ calls' = [ calls EXCEPT !.publish = @ + 1 ]
    /\ idx' = idx + 1
    /\ now' = now + 1
    /\ UNCHANGED << initial, pc, tick, exc, connected, link, timestamp, updates, raised >>

\* one pass of "for sensor in self.sensors" in publish_sensor_data in which
\* client.publish returns
PublishSensor ==
    /\ pc = "publish"
    /\ idx \in 1..N
    /\ sent' = Append(sent, Message(sensors[idx], timestamp))
    /\ calls' = [ calls EXCEPT !.publish = @ + 1 ]
    /\ idx' = idx + 1
    /\ now' = now + 1
    /\ UNCHANGED << sensors, initial, pc, tick, exc, connected, link, timestamp, updates, raised >>

\* PublishRaise with the failure caught and the loop going on to the next sensor
PublishRaiseSkip ==
    /\ pc = "publish"
    /\ idx \in 1..N
    /\ calls' = [ calls EXCEPT !.publish = @ + 1 ]
    /\ idx' = idx + 1
    /\ now' = now + 1
    /\ raised' = "Exception"
    /\ UNCHANGED << sensors, initial, pc, tick, exc, connected, link, timestamp, sent, updates >>

\* client.publish raises: nothing in publish_sensor_data catches it, the
\* exception leaves the while loop, passes the except clause of run and
\* the finally clause runs
PublishRaise ==
    /\ pc = "publish"
    /\ idx \in 1..N
    /\ calls' = [ calls EXCEPT !.publish = @ + 1, !.disconnect = @ + 1 ]
    /\ exc' = Except("Exception")
    /\ link' = "closed"
    /\ pc' = "done"
    /\ now' = now + 1
    /\ raised' = "Exception"
    /\ UNCHANGED << sensors, initial, idx, tick, connected, timestamp, sent, updates >>

\* publish_sensor_data returns; time.sleep(self.interval) begins
PublishReturn ==
    /\ pc = "publish"
    /\ idx = N + 1
    /\ pc' = "sleep"
    /\ now' = now + 1
    /\ UNCHANGED << sensors, initial, idx, tick, exc, connected, link, timestamp, sent, updates, calls, raised >>

\* ------------------------------------------------------------- connect
\* self.client.connect(...) returns (line 80)
ClientConnect ==
    /\ pc = "connect"
    /\ calls' = [ calls EXCEPT !.connect = @ + 1 ]
    /\ link' = "open"
    /\ pc' = "connect_return"
    /\ now' = now + 1
    /\ UNCHANGED << sensors, initial, idx, tick, exc, connected, timestamp, sent, updates, raised >>

\* ConnectFail followed by another attempt to connect
ConnectFailRetry ==
    /\ pc = "connect"
    /\ calls.connect < 3
    /\ calls' = [ calls EXCEPT !.connect = @ + 1 ]
    /\ now' = now + 1
    /\ raised' = "Exception"
    /\ UNCHANGED << sensors, initial, pc, idx, tick, exc, connected, link, timestamp, sent, updates >>

\* ConnectFail with the result of connect() ignored by run()
ConnectFailIgnored ==
    /\ pc = "connect"
    /\ calls' = [ calls EXCEPT !.connect = @ + 1, !.update = @ + 1 ]
    /\ connected' = "false"
    /\ pc' = "update"
    /\ idx' = 1
    /\ tick' = 1
    /\ now' = now + 1
    /\ raised' = "Exception"
    /\ UNCHANGED << sensors, initial, exc, link, timestamp, sent, updates >>

\* self.client.connect(...) raises an Exception: connect() reports it and
\* returns False, run() returns at "if not self.connect(): return"
ConnectFail ==
    /\ pc = "connect"
    /\ calls' = [ calls EXCEPT !.connect = @ + 1 ]
    /\ connected' = "false"
    /\ pc' = "done"
    /\ now' = now + 1
    /\ raised' = "Exception"
    /\ UNCHANGED << sensors, initial, idx, tick, exc, link, timestamp, sent, updates >>

\* ConnectReturn with the loop body in the order publish, update
ConnectReturnPublishFirst ==
    /\ pc = "connect_return"
    /\ connected' = "true"
    /\ pc' = "publish"
    /\ idx' = 1
    /\ tick' = 1
    /\ timestamp' = now
    /\ now' = now + 1
    /\ UNCHANGED << sensors, initial, exc, link, sent, updates, calls, raised >>

\* connect() prints and returns True; run() enters the try block and the
\* first iteration of "while True" calls update_sensor_values
ConnectReturn ==
    /\ pc = "connect_return"
    /\ connected' = "true"
    /\ pc' = "update"
    /\ idx' = 1
    /\ tick' = 1
    /\ calls' = [ calls EXCEPT !.update = @ + 1 ]
    /\ now' = now + 1
    /\ UNCHANGED << sensors, initial, exc, link, timestamp, sent, updates, raised >>

\* KeyboardInterrupt while run() is still in self.connect(): it is not an
\* Exception, so "except Exception" does not catch it, and the call is
\* outside the try block of run(): it propagates out of run()
InterruptConnect ==
    /\ pc \in { "connect", "connect_return" }
    /\ calls' = [ calls EXCEPT !.connect = IF pc = "connect" THEN @ + 1 ELSE @ ]
    /\ connected' = "raised"
    /\ exc' = "KeyboardInterrupt"
    /\ pc' = "done"
    /\ now' = now + 1
    /\ raised' = "KeyboardInterrupt"
    /\ UNCHANGED << sensors, initial, idx, tick, link, timestamp, sent, updates >>

\* ----------------------------------------------------------------- run
\* time.sleep returns and "while True" starts its next iteration (the
\* interval is taken to be non-negative, so time.sleep itself does not raise)
Sleep ==
    /\ pc = "sleep"
    /\ tick < MaxTicks
    /\ pc' = "update"
    /\ idx' = 1
    /\ tick' = tick + 1
    /\ sent' = << >>
    /\ calls' = [ calls EXCEPT !.update = @ + 1 ]
    /\ now' = now + 1
    /\ UNCHANGED << sensors, initial, exc, connected, link, timestamp, updates, raised >>

\* Interrupt with the finally clause missing
InterruptNoFinally ==
    /\ pc \in { "update", "publish", "sleep" }
    /\ exc' = Except("KeyboardInterrupt")
    /\ pc' = "done"
    /\ now' = now + 1
    /\ raised' = "KeyboardInterrupt"
    /\ UNCHANGED << sensors, initial, idx, tick, connected, link, timestamp, sent, updates, calls >>

\* KeyboardInterrupt inside the try block (during update_sensor_values,
\* publish_sensor_data or time.sleep): the except clause handles it and the
\* finally clause runs
Interrupt ==
    /\ pc \in { "update", "publish", "sleep" }
    /\ exc' = Except("KeyboardInterrupt")
    /\ calls' = [ calls EXCEPT !.disconnect = @ + 1 ]
    /\ link' = "closed"
    /\ pc' = "done"
    /\ now' = now + 1
    /\ raised' = "KeyboardInterrupt"
    /\ UNCHANGED << sensors, initial, idx, tick, connected, timestamp, sent, updates >>

Next ==
    \/ ClientConnect
    \/ ConnectFail
    \/ ConnectReturn
    \/ InterruptConnect
    \/ UpdateSensor
    \/ UpdateReturn
    \/ PublishSensor
    \/ PublishRaise
    \/ PublishReturn
    \/ Sleep
    \/ Interrupt

Spec == Init /\ [][Next]_vars

\* =============================================================== claims
Continuous(sensor) == sensor.type # "motion"

Abs(x) == IF x < 0 THEN -x ELSE x

\* the value of member key of a serialized object
Field(body, key) == body[CHOOSE j \in 1..Len(body) : body[j][1] = key][2]

\* C1: in every reachable state every sensor's current_value lies in
\* [min, max] of its type, and a motion sensor's value is exactly 0 or 1.
C1_ValuesInRange ==
    \A i \in 1..N :
        /\ SENSOR_TYPES[sensors[i].type].min <= sensors[i].current_value
        /\ sensors[i].current_value <= SENSOR_TYPES[sensors[i].type].max
        /\ sensors[i].type = "motion" => sensors[i].current_value \in { 0, 1 * Scale }

\* C1 witness: a continuous sensor that started at max has been updated at
\* least twice and sits at max.
C1_Witness ==
    \E i \in 1..N :
        /\ Continuous(sensors[i])
        /\ initial[i].current_value = SENSOR_TYPES[sensors[i].type].max
        /\ updates[i] >= 2
        /\ sensors[i].current_value = SENSOR_TYPES[sensors[i].type].max

\* C2: once connect() has returned False the run is over: no update step
\* and no publish has happened and every sensor still has its initial value.
C2_ConnectFailureStopsRun ==
    connected = "false" =>
        /\ pc = "done"
        /\ tick = 0
        /\ calls.update = 0
        /\ calls.publish = 0
        /\ sent = << >>
        /\ sensors = initial
        /\ \A i \in 1..N : updates[i] = 0

\* C2 witness: a run with a non-empty fleet whose connect failed.
C2_Witness == connected = "false" /\ pc = "done" /\ N >= 1 /\ calls.connect = 1

\* C3 as stated: whenever a KeyboardInterrupt has arrived, at whatever
\* point of the run, the run has ended with the client disconnected.
C3_InterruptAlwaysDisconnects ==
    raised = "KeyboardInterrupt" => (pc = "done" /\ link = "closed")

\* C3 amended: a KeyboardInterrupt that arrives inside the tick loop ends
\* the run with exactly one disconnect call, the connection closed and the
\* interruption handled; one that arrives while run() is still in connect()
\* leaves run() unhandled, with no disconnect call and before any tick.
C3_InterruptInLoopDisconnects ==
    raised = "KeyboardInterrupt" =>
        /\ pc = "done"
        /\ connected \in { "true", "raised" }
        /\ connected = "true" =>
              link = "closed" /\ calls.disconnect = 1 /\ exc = "none"
        /\ connected = "raised" =>
              calls.disconnect = 0 /\ exc = "KeyboardInterrupt" /\ tick = 0

\* C3 witness: the interruption arrived in the second tick while some but
\* not all messages of the tick had been published.
C3_Witness ==
    /\ raised = "KeyboardInterrupt"
    /\ connected = "true"
    /\ tick >= 2
    /\ Len(sent) >= 1
    /\ Len(sent) < N

\* C4: when the publish step of a tick has completed, exactly N messages
\* were emitted in it, the i-th to sensors/<type>/<id> of the i-th sensor
\* with that sensor's id, type, location, unit and current value.
C4_OneMessagePerSensor ==
    pc = "sleep" =>
        /\ Len(sent) = N
        /\ calls.publish = tick * N
        /\ \A i \in 1..N :
            /\ sent[i].topic = << "sensors", sensors[i].type, sensors[i].id >>
            /\ Field(sent[i].body, "sensor_id") = sensors[i].id
            /\ Field(sent[i].body, "type") = sensors[i].type
            /\ Field(sent[i].body, "location") = sensors[i].location
            /\ Field(sent[i].body, "unit") = SENSOR_TYPES[sensors[i].type].unit
            /\ Field(sent[i].body, "value") = sensors[i].current_value

\* C4 witness: the second tick of a fleet of at least two sensors has
\* completed its publish step.
C4_Witness == pc = "sleep" /\ tick >= 2 /\ N >= 2 /\ Len(sent) = N

\* C5: once client.publish has raised, the run has ended with the exception
\* still in flight; the failing sensor and those after it were not
\* published in that tick, and the failing call was the last publish call.
C5_PublishFailurePropagates ==
    (raised = "Exception" /\ connected = "true") =>
        /\ pc = "done"
        /\ exc = "Exception"
        /\ idx \in 1..N
        /\ Len(sent) = idx - 1
        /\ calls.publish = (tick - 1) * N + idx
        /\ calls.update = tick
        /\ \A i \in 1..N : updates[i] = tick

\* C5 witness: the publish of the first of at least two sensors failed in
\* the second tick.
C5_Witness ==
    /\ raised = "Exception"
    /\ connected = "true"
    /\ tick >= 2
    /\ idx = 1
    /\ N >= 2
    /\ sent = << >>

\* C6: the fleet keeps its size and every sensor its id, type, location and
\* characteristics; a step that changes a sensor is a step of the update
\* loop and changes only the current_value of the sensor the loop is at.
C6_FleetFixed ==
    /\ [](/\ Len(sensors) = Len(initial)
          /\ \A i \in 1..N :
                sensors[i] = [ initial[i] EXCEPT !.current_value = sensors[i].current_value ])
    /\ [][ sensors' # sensors =>
              /\ pc = "update" /\ pc' = "update"
              /\ idx \in 1..N
              /\ \A i \in 1..N : i # idx => sensors'[i] = sensors[i] ]_vars

\* C6 witness: a run that connected, changed a value, published and
\* disconnected.
C6_Witness ==
    /\ pc = "done"
    /\ calls.disconnect = 1
    /\ Len(sent) >= 1
    /\ \E i \in 1..N : sensors[i].current_value # initial[i].current_value

\* C7: a continuous sensor that has been updated holds a multiple of
\* 10^-precision, and after a completed update_sensor_values call every
\* continuous sensor does.
C7_RoundedAfterUpdate ==
    /\ \A i \in 1..N :
          (Continuous(sensors[i]) /\ updates[i] >= 1) =>
              sensors[i].current_value % Quantum(SENSOR_TYPES[sensors[i].type].precision) = 0
    /\ pc \in { "publish", "sleep" } =>
          \A i \in 1..N :
              Continuous(sensors[i]) =>
                  sensors[i].current_value % Quantum(SENSOR_TYPES[sensors[i].type].precision) = 0

\* C7 witness: the first update call has completed on a fleet with a
\* continuous sensor whose initial value was not a multiple of 10^-precision.
C7_Witness ==
    /\ pc = "publish"
    /\ \E i \in 1..N :
          /\ Continuous(sensors[i])
          /\ initial[i].current_value % Quantum(SENSOR_TYPES[sensors[i].type].precision) # 0

\* C8: in tick k every sensor has been updated k times before the first
\* message of the tick is published; every message of the tick carries the
\* value its sensor got from that update, and all carry one timestamp.
C8_UpdateThenPublish ==
    /\ (pc \in { "publish", "sleep" } \/ Len(sent) > 0) =>
          \A i \in 1..N : updates[i] = tick /\ updates[i] >= 1
    /\ Len(sent) <= N
    /\ \A j \in 1..Len(sent) :
          /\ Field(sent[j].body, "sensor_id") = sensors[j].id
          /\ Field(sent[j].body, "value") = sensors[j].current_value
          /\ Field(sent[j].body, "timestamp") = Field(sent[1].body, "timestamp")
    /\ pc = "sleep" => Len(sent) = N

\* C8 witness: the second tick has published at least two messages.
C8_Witness == tick >= 2 /\ Len(sent) >= 2

\* C9 as stated: no step changes the value of a continuous sensor by more
\* than drift_max of its type.
C9_ChangeAtMostDriftMax ==
    [][ \A i \in 1..N :
          Continuous(sensors[i]) =>
              Abs(sensors'[i].current_value - sensors[i].current_value)
                  <= SENSOR_TYPES[sensors[i].type].drift_max ]_vars

\* C9 amended: a step changes the value of a continuous sensor by at most
\* drift_max when the prior value is a multiple of 10^-precision, and by at
\* most drift_max plus half of 10^-precision otherwise.
C9_ChangeAtMostDriftMaxPlusRounding ==
    [][ \A i \in 1..N :
          Continuous(sensors[i]) =>
              LET q     == Quantum(SENSOR_TYPES[sensors[i].type].precision)
                  dmax  == SENSOR_TYPES[sensors[i].type].drift_max
                  delta == Abs(sensors'[i].current_value - sensors[i].current_value)
              IN  /\ sensors[i].current_value % q = 0 => delta <= dmax
                  /\ 2 * delta <= 2 * dmax + q ]_vars

\* C9 witness: the first update moved a continuous sensor by more than
\* drift_max from its initial value.
C9_Witness ==
    \E i \in 1..N :
        /\ Continuous(sensors[i])
        /\ updates[i] = 1
        /\ Abs(sensors[i].current_value - initial[i].current_value)
               > SENSOR_TYPES[sensors[i].type].drift_max

\* C10: connect is attempted once; disconnect is called once when connect()
\* returned True and the run has ended, and not at all otherwise; after the
\* disconnect call nothing is connected, updated or published.
C10_Lifecycle ==
    /\ [](/\ calls.connect <= 1
          /\ pc # "connect" => calls.connect = 1
          /\ calls.disconnect <= 1
          /\ (connected = "true" /\ pc = "done") => calls.disconnect = 1
          /\ (connected = "true" /\ pc # "done") => calls.disconnect = 0
          /\ connected # "true" => calls.disconnect = 0)
    /\ [][ calls.disconnect >= 1 =>
              /\ calls' = calls
              /\ sensors' = sensors
              /\ sent' = sent
              /\ link' = "closed" ]_vars

\* C10 witness: a publish failure ended the tick loop and the run has
\* disconnected.
C10_Witness ==
    /\ pc = "done"
    /\ connected = "true"
    /\ raised = "Exception"
    /\ calls.connect = 1
    /\ calls.disconnect = 1

====
